---- MODULE Spec2Model ----
(***************************************************************************)
(* Model of the vscode-java-pack auxiliary panels:                         *)
(*   src/src/java-runtime/index.ts   "Configure Java Runtime" panel, JDK   *)
(*                                   discovery / validation, release       *)
(*                                   advisor                               *)
(*   src/src/ext-guide/index.ts      "Java Extension Guide" panel          *)
(*   src/unnamed/part_000            "Java Getting Started" panel          *)
(*                                                                         *)
(* Three specifications share the module:                                  *)
(*   SpecParse     parseMajorVersion applied to bounded banners            *)
(*   SpecValidate  findPossibleJdkInstallations / findJavaRuntimeEntries / *)
(*                 validateJavaRuntime over a small filesystem             *)
(*   Spec          the lifecycle of the three panels and the messages of   *)
(*                 the runtime panel                                       *)
(*                                                                         *)
(* JavaScript strings are sequences of one-character strings, so that the  *)
(* regular expressions, path.parse and expand-tilde are computed on        *)
(* characters.                                                             *)
(***************************************************************************)
EXTENDS Integers, Sequences, FiniteSets, TLC

VARIABLES
    \* ---- SpecParse
    content,        \* the banner handed to parseMajorVersion
    javaVersion,    \* <<>> before the call, <<n>> once it returned n
    \* ---- SpecValidate
    settings,       \* the configuration / environment the enumerator reads
    probe,          \* <<>> or <<r>>: what find-java-home called back with
    entries,        \* the JavaRuntimeEntry array (<<>> before enumeration)
    vpc,            \* per entry: position of its async validation callback
    ioLog,          \* filesystem checks and process executions performed
    validateResult, \* <<>> or <<r>>: what validateJavaRuntime resolved to
    \* ---- Spec (panels)
    view,           \* per feature: the module-level panel reference
    panels,         \* every surface ever created or restored
    requests,       \* advisory requests (suggestOpenJdk calls) of the runtime panel
    discoveries,    \* findJavaRuntimeEntries calls of the runtime panel
    posted          \* per command: the messages posted to surfaces, in posting order

parseVars == <<content, javaVersion>>
valVars == <<settings, probe, entries, vpc, ioLog, validateResult>>
panelVars == <<view, panels, requests, discoveries, posted>>
vars == <<parseVars, valVars, panelVars>>

\* ------------------------------------------------------------------------
\* Bounds
\* ------------------------------------------------------------------------
\* number of banner segments concatenated into an input of parseMajorVersion
MaxSegs == 3
\* number of surfaces the open commands and the host's restores create in all
MaxPanels == 2
\* number of advisory requests (suggestOpenJdk calls) issued in all
MaxRequests == 2

\* ------------------------------------------------------------------------
\* Strings as character sequences
\* ------------------------------------------------------------------------
DigitChars == {"0", "1", "2", "3", "4", "5", "6", "7", "8", "9"}

DigitValue(c) ==
    CASE c = "0" -> 0 [] c = "1" -> 1 [] c = "2" -> 2 [] c = "3" -> 3
      [] c = "4" -> 4 [] c = "5" -> 5 [] c = "6" -> 6 [] c = "7" -> 7
      [] c = "8" -> 8 [] c = "9" -> 9

\* String.prototype.startsWith(lit, i-1) (positions are 1-based here)
StartsWithAt(s, lit, i) ==
    /\ i >= 1
    /\ i + Len(lit) - 1 <= Len(s)
    /\ \A k \in 1..Len(lit) : s[i + k - 1] = lit[k]

\* String.prototype.substring(n): drop the first n characters
Substring(s, n) == IF n >= Len(s) THEN <<>> ELSE SubSeq(s, n + 1, Len(s))

\* the characters the regular expression "." does not match
LineTerminators == {"\n", "\r"}

\* parseInt(digits, 10) of a run of decimal digits
RECURSIVE ParseInt(_)
ParseInt(ds) ==
    IF ds = <<>> THEN 0
    ELSE ParseInt(SubSeq(ds, 1, Len(ds) - 1)) * 10 + DigitValue(ds[Len(ds)])

\* ------------------------------------------------------------------------
\* parseMajorVersion (java-runtime/index.ts 96-116)
\* ------------------------------------------------------------------------
VersionLiteral == <<"v", "e", "r", "s", "i", "o", "n", " ", "\"">>

\* regexp.exec of /version "(.*)"/ at one start position: the literal, then
\* a greedy ".*" over the characters up to the line end, backtracked to the
\* last position that is followed by a closing quote.  The result is the set
\* of the end positions of capture group 1 the backtracking can stop at.
GroupEnds(s, start) ==
    LET from == start + Len(VersionLiteral)
        lineEnd == CHOOSE e \in (from - 1)..Len(s) :
                      /\ \A k \in from..e : s[k] \notin LineTerminators
                      /\ (e = Len(s) \/ s[e + 1] \in LineTerminators)
    IN  IF StartsWithAt(s, VersionLiteral, start)
        THEN {e \in (from - 1)..(lineEnd - 1) : s[e + 1] = "\""}
        ELSE {}

\* (mutant of PickGroupEnd) a lazy ".*?": the shortest capture wins
PickGroupEndLazy(ends) == CHOOSE e \in ends : \A o \in ends : e <= o

\* ".*" is greedy: the longest capture wins
PickGroupEnd(ends) == CHOOSE e \in ends : \A o \in ends : e >= o

\* (mutant of VersionMatch) the pattern lacks its closing quote,
\* /version "(.*)/: the capture runs to the end of the line
VersionMatchUnclosed(s) ==
    LET starts == {i \in 1..Len(s) : StartsWithAt(s, VersionLiteral, i)}
    IN  IF starts = {} THEN <<>>
        ELSE LET i == CHOOSE x \in starts : \A y \in starts : x <= y
                 from == i + Len(VersionLiteral)
                 e == CHOOSE x \in (from - 1)..Len(s) :
                         /\ \A k \in from..x : s[k] \notin LineTerminators
                         /\ (x = Len(s) \/ s[x + 1] \in LineTerminators)
             IN  <<SubSeq(s, from, e)>>

\* regexp.exec(content): the leftmost start position that matches; the result
\* is <<>> (null) or <<match[1]>>
VersionMatch(s) ==
    LET starts == {i \in 1..Len(s) : GroupEnds(s, i) # {}}
    IN  IF starts = {} THEN <<>>
        ELSE LET i == CHOOSE x \in starts : \A y \in starts : x <= y
                 from == i + Len(VersionLiteral)
                 e == PickGroupEnd(GroupEnds(s, i))
             IN  <<SubSeq(s, from, e)>>

\* "Ignore '1.' prefix for legacy Java versions"
StripLegacyPrefix(version) ==
    IF StartsWithAt(version, <<"1", ".">>, 1) THEN Substring(version, 2) ELSE version

\* /\d+/ exec: the first maximal run of decimal digits, <<>> when there is none
FirstDigitRun(s) ==
    LET ds == {i \in 1..Len(s) : s[i] \in DigitChars}
    IN  IF ds = {} THEN <<>>
        ELSE LET b == CHOOSE x \in ds : \A y \in ds : x <= y
                 e == CHOOSE x \in b..Len(s) :
                         /\ \A k \in b..x : s[k] \in DigitChars
                         /\ (x = Len(s) \/ s[x + 1] \notin DigitChars)
             IN  SubSeq(s, b, e)

parseMajorVersion(s) ==
    LET match == VersionMatch(s)
    IN  IF match = <<>> THEN 0
        ELSE ParseInt(FirstDigitRun(StripLegacyPrefix(match[1])))

\* ------------------------------------------------------------------------
\* Paths: expand-tilde, path.resolve, path.parse (POSIX platform)
\* ------------------------------------------------------------------------
\* JavaScript undefined, as a string value: no character sequence equals it
Undefined == <<"undefined">>
EmptyString == <<>>

\* !s for a string-or-undefined value
Falsy(s) == s = Undefined \/ s = EmptyString

\* _.isEmpty for a string-or-undefined value
IsEmpty(s) == s = Undefined \/ Len(s) = 0

HomeDir == <<"/", "h">>
Cwd == <<"/", "w">>

\* process.platform.indexOf("win") === 0 (index.ts 90); the model's host is POSIX
isWindows == FALSE
ExeSuffix == IF isWindows THEN <<".", "e", "x", "e">> ELSE <<>>
JAVAC_FILENAME == <<"b", "i", "n", "/", "j", "a", "v", "a", "c">> \o ExeSuffix
JAVA_FILENAME == <<"b", "i", "n", "/", "j", "a", "v", "a">> \o ExeSuffix

\* path.normalize restricted to what the model's paths need: runs of "/" are
\* collapsed and a trailing "/" is dropped (no "." or ".." segments occur)
RECURSIVE Normalize(_)
Normalize(p) ==
    IF Len(p) <= 1 THEN p
    ELSE IF p[1] = "/" /\ p[2] = "/" THEN Normalize(Tail(p))
    ELSE LET rest == Normalize(Tail(p))
         IN  IF rest = <<"/">> THEN <<p[1]>> ELSE <<p[1]>> \o rest

\* path.join(a, b)
PathJoin(a, b) == Normalize(a \o <<"/">> \o b)

\* path.resolve(base, file): a relative base is resolved against the cwd
PathResolve(base, file) ==
    IF base # <<>> /\ base[1] = "/" THEN PathJoin(base, file)
    ELSE PathJoin(PathJoin(Cwd, base), file)

\* expand-tilde: "~+" is the cwd, another leading "~" is the home directory
expandTilde(p) ==
    IF p # <<>> /\ p[1] = "~"
    THEN IF Len(p) >= 2 /\ p[2] = "+" THEN PathJoin(Cwd, Substring(p, 2))
         ELSE PathJoin(HomeDir, Substring(p, 1))
    ELSE p

\* the last segment of a path, trailing separators ignored: path.parse(p).base
PathBase(p) ==
    LET q == Normalize(p)
        slashes == {i \in 1..Len(q) : q[i] = "/"}
        last == IF slashes = {} THEN 0
                ELSE CHOOSE x \in slashes : \A y \in slashes : x >= y
    IN  Substring(q, last)

\* path.parse(p).name: the last segment without its extension; the extension
\* starts at the last "." that is not the first character of the segment
PathName(p) ==
    LET base == PathBase(p)
        dots == {i \in 2..Len(base) : base[i] = "."}
    IN  IF dots = {} \/ base = <<".", ".">> THEN base
        ELSE SubSeq(base, 1, (CHOOSE x \in dots : \A y \in dots : x >= y) - 1)

UpperCase == <<"A", "B", "C", "D", "E", "F", "G", "H", "I", "J", "K", "L", "M",
               "N", "O", "P", "Q", "R", "S", "T", "U", "V", "W", "X", "Y", "Z">>
LowerCase == <<"a", "b", "c", "d", "e", "f", "g", "h", "i", "j", "k", "l", "m",
               "n", "o", "p", "q", "r", "s", "t", "u", "v", "w", "x", "y", "z">>

\* String.prototype.toLowerCase
toLowerCase(s) ==
    [i \in 1..Len(s) |->
        IF \E k \in 1..26 : UpperCase[k] = s[i]
        THEN LowerCase[CHOOSE k \in 1..26 : UpperCase[k] = s[i]]
        ELSE s[i]]

\* ------------------------------------------------------------------------
\* The host the validator probes: a filesystem with a few installations
\* ------------------------------------------------------------------------
Quote == <<"\"">>
Banner17 == <<"o", "p", "e", "n", "j", "d", "k", " ">> \o VersionLiteral
              \o <<"1", "7", ".", "0", ".", "1">> \o Quote \o <<" ", "2", "0", "2", "1", "\n">>
Banner11 == <<"o", "p", "e", "n", "j", "d", "k", " ">> \o VersionLiteral
              \o <<"1", "1", ".", "0", ".", "2">> \o Quote \o <<"\n">>
Banner8 == <<"j", "a", "v", "a", " ">> \o VersionLiteral
              \o <<"1", ".", "8", ".", "0", "_", "2", "9", "2">> \o Quote \o <<"\n">>

\* root: the installation directory; javac / java: whether bin/javac and
\* bin/java exist there; stderr: what "bin/java -version" writes
Installations ==
    { [root |-> <<"/", "a">>, javac |-> TRUE, java |-> TRUE, stderr |-> Banner17],
      [root |-> <<"/", "b">>, javac |-> TRUE, java |-> TRUE, stderr |-> Banner8],
      [root |-> <<"/", "h", "/", "c">>, javac |-> TRUE, java |-> TRUE, stderr |-> Banner11],
      [root |-> <<"/", "e">>, javac |-> FALSE, java |-> TRUE, stderr |-> Banner17],
      [root |-> <<"/", "x">>, javac |-> TRUE, java |-> FALSE, stderr |-> <<>>] }

\* path-exists: resolves to a boolean, never rejects
pathExists(file) ==
    \E j \in Installations : j.javac /\ file = PathJoin(j.root, JAVAC_FILENAME)

\* child_process.execFile(file, ["-version"]): the callback's (err, stderr)
execFile(file) ==
    IF \E j \in Installations : j.java /\ file = PathJoin(j.root, JAVA_FILENAME)
    THEN LET j == CHOOSE k \in Installations :
                     k.java /\ file = PathJoin(k.root, JAVA_FILENAME)
         IN  [err |-> FALSE, stderr |-> j.stderr]
    ELSE [err |-> TRUE, stderr |-> <<>>]

\* what the java.home setting may hold
CandidatePaths ==
    { Undefined,
      EmptyString,
      <<"/", "a">>,
      <<"/", "b">>,
      <<"~", "/", "c">>,
      <<"/", "h", "/", "c">>,
      <<"/", "a", "/", "b", "i", "n">>,
      <<"/", "b", "/", "B", "i", "N">>,
      <<"/", "a", "/", "b", "i", "n", ".", "o", "l", "d">>,
      <<"/", "e">>,
      <<"/", "x">> }

\* what the environment variables JDK_HOME and JAVA_HOME may hold
EnvPaths ==
    { Undefined,
      <<"/", "a">>,
      <<"/", "b">>,
      <<"/", "h", "/", "c">>,
      <<"/", "a", "/", "b", "i", "n">> }

\* what find-java-home may report
AutoDetected == { <<"/", "a">>, <<"/", "b">> }

\* ------------------------------------------------------------------------
\* JavaRuntimeEntry and the validator (java-runtime/index.ts 130-204)
\* ------------------------------------------------------------------------
MIN_JDK_VERSION == 11

\* entry.hint is a string; it is kept as the list of the pieces it is
\* concatenated from, <<>> standing for "no hint" (undefined)
NoHint == <<>>
HintNotJdk == <<"This path is not pointing to a JDK.">>
HintRemoveBin == <<" Try remove the \"bin\" from the path.">>
HintVersion(version) ==
    <<"JDK ", "11", "+ is required while the path is pointing to version ",
      ToString(version)>>

\* (mutant of EnumeratedEntries) a failed probe contributes a fourth entry,
\* marked invalid, instead of none
EnumeratedEntriesMarkingFailure(cfg, found) ==
    << [name |-> "java.home", path |-> cfg.javaHome, type |-> "UserSetting",
        actionUri |-> "command:workbench.action.openSettings?%22java.home%22",
        isValid |-> "undefined", hint |-> NoHint],
       [name |-> "JDK_HOME", path |-> cfg.JDK_HOME, type |-> "EnvironmentVariable",
        actionUri |-> "undefined", isValid |-> "undefined", hint |-> NoHint],
       [name |-> "JAVA_HOME", path |-> cfg.JAVA_HOME, type |-> "EnvironmentVariable",
        actionUri |-> "undefined", isValid |-> "undefined", hint |-> NoHint],
       [name |-> "Other", path |-> found.home, type |-> "Other",
        actionUri |-> "undefined",
        isValid |-> IF found.err THEN "false" ELSE "undefined",
        hint |-> IF found.err THEN HintNotJdk ELSE NoHint] >>

\* findPossibleJdkInstallations: found is find-java-home's callback (err, home)
EnumeratedEntries(cfg, found) ==
    LET fixed ==
          << [name |-> "java.home", path |-> cfg.javaHome, type |-> "UserSetting",
              actionUri |-> "command:workbench.action.openSettings?%22java.home%22",
              isValid |-> "undefined", hint |-> NoHint],
             [name |-> "JDK_HOME", path |-> cfg.JDK_HOME, type |-> "EnvironmentVariable",
              actionUri |-> "undefined", isValid |-> "undefined", hint |-> NoHint],
             [name |-> "JAVA_HOME", path |-> cfg.JAVA_HOME, type |-> "EnvironmentVariable",
              actionUri |-> "undefined", isValid |-> "undefined", hint |-> NoHint] >>
    IN  IF ~found.err
        THEN Append(fixed, [name |-> "Other", path |-> found.home, type |-> "Other",
                            actionUri |-> "undefined", isValid |-> "undefined",
                            hint |-> NoHint])
        ELSE fixed

\* the file whose existence checkJdkInstallation tests
JavacFileOf(javaHome) == PathResolve(expandTilde(javaHome), JAVAC_FILENAME)

\* (mutant of checkJdkInstallation) the guard on an empty path is missing
checkJdkInstallationNoGuard(javaHome) ==
    LET home == IF javaHome = Undefined THEN EmptyString ELSE javaHome
    IN  [checked |-> {JavacFileOf(home)}, result |-> pathExists(JavacFileOf(home))]

\* checkJdkInstallation: the existence checks it issues, and its result
checkJdkInstallation(javaHome) ==
    IF Falsy(javaHome) THEN [checked |-> {}, result |-> FALSE]
    ELSE [checked |-> {JavacFileOf(javaHome)},
          result |-> pathExists(JavacFileOf(javaHome))]

\* the binary getJavaVersion executes
JavaFileOf(javaHome) == PathResolve(javaHome, JAVA_FILENAME)

\* (mutant of ExecOutcome) an execution error rejects the promise
ExecOutcomeRejecting(r) ==
    IF r.err THEN [status |-> "rejected", version |-> 0]
    ELSE [status |-> "resolved", version |-> parseMajorVersion(r.stderr)]

\* the execFile callback of getJavaVersion: err is ignored, stderr is parsed
ExecOutcome(r) == [status |-> "resolved", version |-> parseMajorVersion(r.stderr)]

\* getJavaVersion: the executions it issues, and what its promise settles to
getJavaVersion(javaHome) ==
    IF Falsy(javaHome)
    THEN [executed |-> {}, outcome |-> [status |-> "resolved", version |-> 0]]
    ELSE [executed |-> {JavaFileOf(javaHome)},
          outcome |-> ExecOutcome(execFile(JavaFileOf(javaHome)))]

\* index.ts 187-188: pathObject.name && pathObject.name.toLowerCase() === "bin"
SuggestsRemovingBin(path) ==
    LET name == PathName(IF Falsy(path) THEN EmptyString ELSE path)
    IN  name # <<>> /\ toLowerCase(name) = <<"b", "i", "n">>

\* index.ts 185-191: the entry that lacks the compiler binary
MarkNotJdk(entry) ==
    [entry EXCEPT !.isValid = "false",
                  !.hint = IF SuggestsRemovingBin(entry.path)
                           THEN HintNotJdk \o HintRemoveBin
                           ELSE HintNotJdk]

\* (mutant of MarkByVersion) the gate reads version <= MIN_JDK_VERSION
MarkByVersionOffByOne(entry, version) ==
    IF version <= MIN_JDK_VERSION
    THEN [entry EXCEPT !.isValid = "false", !.hint = HintVersion(version)]
    ELSE [entry EXCEPT !.isValid = "true"]

\* index.ts 195-202: the minimum-version gate
MarkByVersion(entry, version) ==
    IF version < MIN_JDK_VERSION
    THEN [entry EXCEPT !.isValid = "false", !.hint = HintVersion(version)]
    ELSE [entry EXCEPT !.isValid = "true"]

\* (mutant of validateJavaRuntime) valid when any entry is valid
validateJavaRuntimeAny(es) ==
    IF \E i \in 1..Len(es) : es[i].isValid = "true" THEN "true" ELSE "false"

\* validateJavaRuntime on the validated entries (index.ts 173-178)
validateJavaRuntime(es) ==
    LET nonEmpty == {i \in 1..Len(es) : ~IsEmpty(es[i].path)}
    IN  IF nonEmpty # {}
        THEN es[CHOOSE i \in nonEmpty : \A k \in nonEmpty : i <= k].isValid
        ELSE IF \E i \in 1..Len(es) : es[i].isValid = "true" THEN "true" ELSE "false"

\* ------------------------------------------------------------------------
\* Idle values of the variables a specification does not use
\* ------------------------------------------------------------------------
Features == {"runtime", "extGuide", "gettingStarted"}

\* the outbound messages of the runtime panel (index.ts 56, 63)
Commands == {"applyJdkInfo", "showJavaRuntimeEntries"}

ParseIdle == content = <<>> /\ javaVersion = <<>>

ValidateIdle ==
    /\ settings = [javaHome |-> Undefined, JDK_HOME |-> Undefined, JAVA_HOME |-> Undefined]
    /\ probe = <<>>
    /\ entries = <<>>
    /\ vpc = <<>>
    /\ ioLog = {}
    /\ validateResult = <<>>

PanelsIdle ==
    /\ view = [f \in Features |-> 0]
    /\ panels = <<>>
    /\ requests = <<>>
    /\ discoveries = <<>>
    /\ posted = [c \in Commands |-> <<>>]

\* ------------------------------------------------------------------------
\* SpecParse: parseMajorVersion on bounded banners
\* ------------------------------------------------------------------------
BannerSegments ==
    { VersionLiteral \o <<"1", ".", "8", ".", "0", "_", "2", "9", "2">> \o Quote,
      VersionLiteral \o <<"1", "1", ".", "0", ".", "2">> \o Quote,
      VersionLiteral \o <<"9">> \o Quote,
      VersionLiteral \o <<"x">> \o Quote,
      VersionLiteral,
      Quote,
      <<"\n">>,
      <<"7">>,
      <<" ">> }

RECURSIVE BannersOf(_)
BannersOf(n) ==
    IF n = 0 THEN {<<>>}
    ELSE LET shorter == BannersOf(n - 1)
         IN  shorter \cup {b \o seg : b \in shorter, seg \in BannerSegments}

InitParse ==
    /\ content \in BannersOf(MaxSegs)
    /\ javaVersion = <<>>
    /\ ValidateIdle
    /\ PanelsIdle

\* one call of parseMajorVersion(content)
ParseBanner ==
    /\ javaVersion = <<>>
    /\ javaVersion' = <<parseMajorVersion(content)>>
    /\ UNCHANGED <<content, valVars, panelVars>>

NextParse == ParseBanner

SpecParse == InitParse /\ [][NextParse]_vars

\* ------------------------------------------------------------------------
\* SpecValidate: enumeration, concurrent validation, validateJavaRuntime
\* ------------------------------------------------------------------------
InitValidate ==
    /\ settings \in [javaHome : CandidatePaths, JDK_HOME : EnvPaths,
                     JAVA_HOME : EnvPaths]
    /\ probe = <<>>
    /\ entries = <<>>
    /\ vpc = <<>>
    /\ ioLog = {}
    /\ validateResult = <<>>
    /\ ParseIdle
    /\ PanelsIdle

\* findPossibleJdkInstallations resolves (index.ts 130-159): the three fixed
\* entries, and "Other" when find-java-home reports no error
FindPossibleJdkInstallations ==
    /\ entries = <<>>
    /\ \E r \in {[err |-> TRUE, home |-> Undefined]}
                  \cup {[err |-> FALSE, home |-> h] : h \in AutoDetected} :
          /\ probe' = <<r>>
          /\ entries' = EnumeratedEntries(settings, r)
    /\ UNCHANGED <<settings, vpc, ioLog, validateResult, parseVars, panelVars>>

\* findJavaRuntimeEntries, index.ts 183-184: _.map starts one async callback
\* per entry; each runs up to its await of checkJdkInstallation, which has
\* issued the existence check by then
StartValidation ==
    /\ entries # <<>>
    /\ vpc = <<>>
    /\ vpc' = [i \in 1..Len(entries) |-> "check"]
    /\ ioLog' = ioLog \cup UNION
          { {[entry |-> i, kind |-> "exists", file |-> f] :
                f \in checkJdkInstallation(entries[i].path).checked} :
            i \in 1..Len(entries) }
    /\ UNCHANGED <<settings, probe, entries, validateResult, parseVars, panelVars>>

\* the callback of entry i resumes after checkJdkInstallation (index.ts
\* 184-194): the entry is marked "not a JDK", or getJavaVersion is called
CheckJdkDone(i) ==
    /\ vpc # <<>>
    /\ vpc[i] = "check"
    /\ IF ~checkJdkInstallation(entries[i].path).result
       THEN /\ entries' = [entries EXCEPT ![i] = MarkNotJdk(@)]
            /\ vpc' = [vpc EXCEPT ![i] = "done"]
            /\ UNCHANGED ioLog
       ELSE /\ vpc' = [vpc EXCEPT ![i] = "version"]
            /\ ioLog' = ioLog \cup
                  {[entry |-> i, kind |-> "exec", file |-> f] :
                      f \in getJavaVersion(entries[i].path).executed}
            /\ UNCHANGED entries
    /\ UNCHANGED <<settings, probe, validateResult, parseVars, panelVars>>

\* the callback of entry i resumes after getJavaVersion (index.ts 194-202)
VersionDone(i) ==
    /\ vpc # <<>>
    /\ vpc[i] = "version"
    /\ LET outcome == getJavaVersion(entries[i].path).outcome
       IN  IF outcome.status = "rejected"
           THEN /\ vpc' = [vpc EXCEPT ![i] = "rejected"]
                /\ UNCHANGED entries
           ELSE /\ vpc' = [vpc EXCEPT ![i] = "done"]
                /\ entries' = [entries EXCEPT ![i] = MarkByVersion(@, outcome.version)]
    /\ UNCHANGED <<settings, probe, ioLog, validateResult, parseVars, panelVars>>

\* Promise.all has settled: fulfilled when every callback returned its entry,
\* rejected as soon as one callback rejected
AllSettled ==
    /\ vpc # <<>>
    /\ \/ \A i \in 1..Len(vpc) : vpc[i] = "done"
       \/ \E i \in 1..Len(vpc) : vpc[i] = "rejected"

\* validateJavaRuntime resumes after findJavaRuntimeEntries (index.ts 171-178)
ValidateJavaRuntimeReturns ==
    /\ AllSettled
    /\ validateResult = <<>>
    /\ validateResult' =
          IF \E i \in 1..Len(vpc) : vpc[i] = "rejected"
          THEN <<"rejected">>
          ELSE <<validateJavaRuntime(entries)>>
    /\ UNCHANGED <<settings, probe, entries, vpc, ioLog, parseVars, panelVars>>

NextValidate ==
    \/ FindPossibleJdkInstallations
    \/ StartValidation
    \/ \E i \in 1..Len(entries) : CheckJdkDone(i)
    \/ \E i \in 1..Len(entries) : VersionDone(i)
    \/ ValidateJavaRuntimeReturns

SpecValidate == InitValidate /\ [][NextValidate]_vars

\* ------------------------------------------------------------------------
\* Properties of the validator (SpecValidate)
\* ------------------------------------------------------------------------
Validated(i) == vpc # <<>> /\ i \in 1..Len(vpc) /\ vpc[i] = "done"

AllValidated == vpc # <<>> /\ \A i \in 1..Len(vpc) : vpc[i] = "done"

Contains(hint, piece) == \E k \in 1..Len(hint) : hint[k] = piece

\* the entries whose path is non-empty, and the first of them
NonEmptyEntries == {i \in 1..Len(entries) : ~IsEmpty(entries[i].path)}
FirstNonEmpty == CHOOSE i \in NonEmptyEntries : \A k \in NonEmptyEntries : i <= k

\* C1: validateJavaRuntime returns the validity of the first entry, in
\* enumeration order, whose path is non-empty, whatever the validity of the
\* later entries; with no non-empty path it returns false.
C1_FirstNonEmptyDecides ==
    validateResult # <<>> =>
        IF NonEmptyEntries # {}
        THEN /\ entries[FirstNonEmpty].isValid \in {"true", "false"}
             /\ validateResult[1] = entries[FirstNonEmpty].isValid
        ELSE validateResult[1] = "false"

\* the first non-empty entry is invalid, a later one is valid, and the
\* result is false
C1_Witness ==
    /\ validateResult = <<"false">>
    /\ NonEmptyEntries # {}
    /\ entries[FirstNonEmpty].isValid = "false"
    /\ \E k \in NonEmptyEntries : k > FirstNonEmpty /\ entries[k].isValid = "true"

\* the entry's compiler binary exists (under the expanded root)
HasCompiler(i) ==
    /\ ~Falsy(entries[i].path)
    /\ pathExists(PathResolve(expandTilde(entries[i].path), JAVAC_FILENAME))

\* the major version the validator detects for entry i
DetectedVersion(i) == getJavaVersion(entries[i].path).outcome.version

\* C4: for every entry whose compiler binary exists, the record is valid
\* exactly when the detected major version is at least 11; below 11 it is
\* invalid with a hint that contains "11" and the detected version, from 11
\* on it is valid with no hint.
C4_MinimumVersionGate ==
    \A i \in 1..Len(entries) :
        (Validated(i) /\ HasCompiler(i)) =>
            /\ (entries[i].isValid = "true") <=> (DetectedVersion(i) >= 11)
            /\ DetectedVersion(i) < 11 =>
                  /\ entries[i].isValid = "false"
                  /\ Contains(entries[i].hint, "11")
                  /\ Contains(entries[i].hint, ToString(DetectedVersion(i)))
            /\ DetectedVersion(i) >= 11 =>
                  /\ entries[i].isValid = "true"
                  /\ entries[i].hint = NoHint

\* a version 8 entry, a version 11 entry and a version 17 entry, all validated
C4_Witness ==
    /\ AllValidated
    /\ \E i \in 1..Len(entries) : HasCompiler(i) /\ DetectedVersion(i) = 8
    /\ \E j \in 1..Len(entries) : HasCompiler(j) /\ DetectedVersion(j) = 11
    /\ \E k \in 1..Len(entries) : HasCompiler(k) /\ DetectedVersion(k) = 17

\* C5: a candidate whose path starts with "~" is validated exactly as the
\* same candidate with "~" replaced by the home directory: the two records
\* agree on isValid and on the hint.
C5_TildeValidatedAsExpanded ==
    \A i, k \in 1..Len(entries) :
        ( /\ Validated(i) /\ Validated(k)
          /\ ~Falsy(entries[i].path)
          /\ entries[i].path[1] = "~"
          /\ entries[k].path = expandTilde(entries[i].path) ) =>
            /\ entries[i].isValid = entries[k].isValid
            /\ entries[i].hint = entries[k].hint

\* the final segment of the path is literally "bin", in any case
LastSegmentIsBin(path) ==
    /\ ~Falsy(path)
    /\ toLowerCase(PathBase(path)) = <<"b", "i", "n">>

\* C7: for an entry that lacks the compiler binary the hint is the generic
\* text, followed by the "remove bin" suggestion if and only if the final
\* segment of the path is literally "bin" (case-insensitively).
C7_RemoveBinOnlyForBin ==
    \A i \in 1..Len(entries) :
        (Validated(i) /\ ~HasCompiler(i)) =>
            entries[i].hint = IF LastSegmentIsBin(entries[i].path)
                              THEN HintNotJdk \o HintRemoveBin
                              ELSE HintNotJdk

\* what index.ts 132-153 lays out at position i
EnumeratedName(i) ==
    CASE i = 1 -> "java.home" [] i = 2 -> "JDK_HOME" [] i = 3 -> "JAVA_HOME"
      [] OTHER -> "Other"

\* the execution of the runtime binary of entry i fails
ExecFails(i) ==
    /\ ~Falsy(entries[i].path)
    /\ execFile(PathResolve(entries[i].path, JAVA_FILENAME)).err

\* the record validation produces for one enumerated entry, on its own
ValidatedAlone(entry) ==
    IF ~checkJdkInstallation(entry.path).result THEN MarkNotJdk(entry)
    ELSE MarkByVersion(entry, getJavaVersion(entry.path).outcome.version)

\* C8: findJavaRuntimeEntries never rejects; when it resolves there is one
\* record per enumerated entry at its enumeration position, each with a
\* boolean isValid and a hint exactly when invalid; a failed execution of the
\* runtime binary counts as version 0 (invalid, version-too-low hint); the
\* completion order of the concurrent checks does not change a record.
C8_ValidationNeverFails ==
    /\ \A i \in 1..Len(vpc) : vpc[i] # "rejected"
    /\ validateResult # <<"rejected">>
    /\ \A i \in 1..Len(entries) :
          /\ entries[i].name = EnumeratedName(i)
          /\ i = 1 => entries[i].path = settings.javaHome
          /\ i = 2 => entries[i].path = settings.JDK_HOME
          /\ i = 3 => entries[i].path = settings.JAVA_HOME
          /\ Validated(i) =>
                /\ entries[i].isValid \in {"true", "false"}
                /\ (entries[i].hint # NoHint) <=> (entries[i].isValid = "false")
                /\ entries[i] =
                      ValidatedAlone([entries[i] EXCEPT !.isValid = "undefined",
                                                        !.hint = NoHint])
          /\ (Validated(i) /\ HasCompiler(i) /\ ExecFails(i)) =>
                /\ entries[i].isValid = "false"
                /\ entries[i].hint = HintVersion(0)
    /\ AllValidated => Len(entries) \in {3, 4}

\* every entry is validated, one of them after its runtime binary failed to
\* execute, and validateJavaRuntime has returned
C8_Witness ==
    /\ AllValidated
    /\ validateResult # <<>>
    /\ \E i \in 1..Len(entries) : HasCompiler(i) /\ ExecFails(i)

\* C10: an entry whose path is empty or absent is marked invalid with the
\* generic hint and no "remove bin" suggestion, and neither an existence
\* check nor a process execution is ever attempted for it.
C10_EmptyPathNoProbe ==
    \A i \in 1..Len(entries) :
        Falsy(entries[i].path) =>
            /\ \A io \in ioLog : io.entry # i
            /\ vpc # <<>> => vpc[i] \in {"check", "done"}
            /\ Validated(i) =>
                  /\ entries[i].isValid = "false"
                  /\ entries[i].hint = HintNotJdk

\* an empty path and an absent path, both validated, beside an entry that
\* was probed
C10_Witness ==
    /\ AllValidated
    /\ entries[1].path = EmptyString
    /\ entries[2].path = Undefined
    /\ \E io \in ioLog : io.kind = "exec"

\* ------------------------------------------------------------------------
\* Properties of parseMajorVersion (SpecParse)
\* ------------------------------------------------------------------------
Text_1_8_0_292 == <<"1", ".", "8", ".", "0", "_", "2", "9", "2">>
Text_11_0_2 == <<"1", "1", ".", "0", ".", "2">>

\* s contains the banner fragment: version "<text>"
ContainsVersion(s, text) ==
    \E i \in 1..Len(s) : StartsWithAt(s, VersionLiteral \o text \o Quote, i)

\* the first occurrence of the word version in s is that of: version "<text>"
FirstVersionIs(s, text) ==
    \E i \in 1..Len(s) :
        /\ StartsWithAt(s, VersionLiteral \o text \o Quote, i)
        /\ \A k \in 1..(i - 1) : ~StartsWithAt(s, VersionLiteral, k)

\* q closes a quotation opened by the literal at i, on the same line
ClosesOnLine(s, i, q) ==
    /\ q >= i + Len(VersionLiteral)
    /\ q <= Len(s)
    /\ s[q] = "\""
    /\ \A k \in (i + Len(VersionLiteral))..(q - 1) : s[k] \notin LineTerminators

\* the positions where   version "   is followed by a closing quote on its line
QuotedStarts(s) ==
    {i \in 1..Len(s) :
        StartsWithAt(s, VersionLiteral, i) /\ \E q \in 1..Len(s) : ClosesOnLine(s, i, q)}

FirstQuotedStart(s) == CHOOSE i \in QuotedStarts(s) : \A k \in QuotedStarts(s) : i <= k

\* the quoted token following the word version: up to the nearest closing quote
QuotedToken(s) ==
    LET i == FirstQuotedStart(s)
        q == CHOOSE x \in 1..Len(s) :
                ClosesOnLine(s, i, x) /\ \A y \in 1..Len(s) : ClosesOnLine(s, i, y) => x <= y
    IN  SubSeq(s, i + Len(VersionLiteral), q - 1)

\* the text up to the last closing quote of the line
TextToLastQuote(s) ==
    LET i == FirstQuotedStart(s)
        q == CHOOSE x \in 1..Len(s) :
                ClosesOnLine(s, i, x) /\ \A y \in 1..Len(s) : ClosesOnLine(s, i, y) => x >= y
    IN  SubSeq(s, i + Len(VersionLiteral), q - 1)

MajorOf(token) == ParseInt(FirstDigitRun(StripLegacyPrefix(token)))

\* C6 (as stated): the result is the major version of the quoted token that
\* follows the word version; every banner that contains version "1.8.0_292"
\* parses to 8 and every banner that contains version "11.0.2" parses to 11.
C6_QuotedTokenPolicy ==
    javaVersion # <<>> =>
        /\ javaVersion[1] =
              IF QuotedStarts(content) = {} THEN 0 ELSE MajorOf(QuotedToken(content))
        /\ ContainsVersion(content, Text_1_8_0_292) => javaVersion[1] = 8
        /\ ContainsVersion(content, Text_11_0_2) => javaVersion[1] = 11

\* C6 (amended): the result is the major version of the text between the
\* first   version "   that is closed on its line and the LAST quote of that
\* line; a banner whose first occurrence of the word version is that of
\* version "1.8.0_292" parses to 8, and to 11 for version "11.0.2".
C6_GreedyTokenPolicy ==
    javaVersion # <<>> =>
        /\ javaVersion[1] =
              IF QuotedStarts(content) = {} THEN 0 ELSE MajorOf(TextToLastQuote(content))
        /\ FirstVersionIs(content, Text_1_8_0_292) => javaVersion[1] = 8
        /\ FirstVersionIs(content, Text_11_0_2) => javaVersion[1] = 11

\* a legacy banner followed by a second quoted version has been parsed to 8
C6_Witness ==
    /\ javaVersion = <<8>>
    /\ FirstVersionIs(content, Text_1_8_0_292)
    /\ ContainsVersion(content, Text_11_0_2)

\* ------------------------------------------------------------------------
\* Spec: the three panels (java-runtime/index.ts 18-88, ext-guide/index.ts,
\* unnamed/part_000) and the messages of the runtime panel
\* ------------------------------------------------------------------------
\* A surface (vscode.WebviewPanel) is a record of `panels`, named by its
\* index.  view[f] = 0 stands for an undefined module-level reference.
\*   disposed   the surface has been disposed
\*   init       position of initialize<Feature>View on this surface:
\*              "none", "loading" (awaiting loadTextFromFile), "ready",
\*              "failed" (threw)
\*   listening  onDidDispose(onDisposeCallback) and onDidReceiveMessage were
\*              registered while the surface was live, so that they will fire
\*   revealed   a later open or restore has brought the surface to the front
\*              with reveal(); a disposed surface is not shown any more
NewPanel(f, disposed, init) ==
    [feature |-> f, disposed |-> disposed, init |-> init,
     listening |-> FALSE, revealed |-> FALSE]

\* reveal() on surface s: on a disposed surface it has no effect on the
\* surfaces, whether the host throws or ignores the call
Reveal(s) ==
    IF panels[s].disposed THEN panels ELSE [panels EXCEPT ![s].revealed = TRUE]

\* what the host does when a disposed surface is used (reveal(), or the
\* webview.html setter): it throws, or it ignores the call
DisposedUseOutcomes == {"throws", "ignored"}

Init ==
    /\ view = [f \in Features |-> 0]
    /\ panels = <<>>
    /\ requests = <<>>
    /\ discoveries = <<>>
    /\ posted = [c \in Commands |-> <<>>]
    /\ ParseIdle
    /\ ValidateIdle

\* (mutant of RevealsExisting) the open command always constructs
RevealsExistingNever(f) == FALSE

\* index.ts 21 / 79: if (javaRuntimeView) { reveal ... return }
RevealsExisting(f) == view[f] # 0

\* java<Feature>CmdHandler up to its await (index.ts 20-34)
CmdHandler(f) ==
    /\ IF RevealsExisting(f)
       THEN /\ panels' = Reveal(view[f])
            /\ UNCHANGED view
       ELSE /\ Len(panels) < MaxPanels
            /\ panels' = Append(panels, NewPanel(f, FALSE, "loading"))
            /\ view' = [view EXCEPT ![f] = Len(panels) + 1]
    /\ UNCHANGED <<requests, discoveries, posted, parseVars, valVars>>

\* <Feature>ViewSerializer.deserializeWebviewPanel (index.ts 78-87): the host
\* hands over a restored surface
DeserializeWebviewPanel(f) ==
    /\ Len(panels) < MaxPanels
    /\ IF RevealsExisting(f)
       THEN \E outcome \in DisposedUseOutcomes :
              /\ panels[view[f]].disposed \/ outcome = "ignored"
              /\ LET threw == panels[view[f]].disposed /\ outcome = "throws"
                 IN  panels' = Append(Reveal(view[f]), NewPanel(f, ~threw, "none"))
              /\ UNCHANGED view
       ELSE /\ panels' = Append(panels, NewPanel(f, FALSE, "loading"))
            /\ view' = [view EXCEPT ![f] = Len(panels) + 1]
    /\ UNCHANGED <<requests, discoveries, posted, parseVars, valVars>>

\* the dispose event reaches onDisposeCallback only if it was registered
\* (index.ts 46) before the surface was disposed
DisposeListenerFires(p) == p.listening

\* the surface is disposed, by the user or by the host; a registered
\* onDidDisposeWebviewPanel clears the module-level reference (index.ts 37-39)
Dispose(s) ==
    /\ ~panels[s].disposed
    /\ panels' = [panels EXCEPT ![s].disposed = TRUE, ![s].revealed = FALSE]
    /\ view' = IF DisposeListenerFires(panels[s])
               THEN [view EXCEPT ![panels[s].feature] = 0]
               ELSE view
    /\ UNCHANGED <<requests, discoveries, posted, parseVars, valVars>>

\* initialize<Feature>View resumes after `await loadTextFromFile` (index.ts
\* 44-74): html is set, the two listeners are registered, and the runtime
\* panel starts suggestOpenJdk() and findJavaRuntimeEntries()
LoadTextDone(s) ==
    /\ panels[s].init = "loading"
    /\ \E outcome \in DisposedUseOutcomes :
          /\ panels[s].disposed \/ outcome = "ignored"
          /\ IF panels[s].disposed /\ outcome = "throws"
             THEN /\ panels' = [panels EXCEPT ![s].init = "failed"]
                  /\ UNCHANGED <<requests, discoveries>>
             ELSE /\ panels' = [panels EXCEPT ![s].init = "ready",
                                              ![s].listening = ~panels[s].disposed]
                  /\ IF panels[s].feature = "runtime"
                     THEN /\ Len(requests) < MaxRequests
                          /\ requests' = Append(requests,
                                [panel |-> s, origin |-> "init", state |-> "pending"])
                          /\ discoveries' = Append(discoveries,
                                [panel |-> s, state |-> "pending"])
                     ELSE UNCHANGED <<requests, discoveries>>
    /\ UNCHANGED <<view, posted, parseVars, valVars>>

\* the runtime panel's UI sends requestJdkInfo: the handler calls
\* suggestOpenJdk(e.jdkVersion, e.jvmImpl) and awaits it (index.ts 47-49)
ReceiveRequestJdkInfo(s) ==
    /\ panels[s].feature = "runtime"
    /\ panels[s].listening
    /\ ~panels[s].disposed
    /\ Len(requests) < MaxRequests
    /\ requests' = Append(requests, [panel |-> s, origin |-> "message", state |-> "pending"])
    /\ UNCHANGED <<view, panels, discoveries, posted, parseVars, valVars>>

\* (mutant of suggestOpenJdk) a failed request is masked: it resolves undefined
suggestOpenJdkMasking(r, ok) ==
    IF ok THEN [state |-> "resolved", jdkInfo |-> r]
    ELSE [state |-> "resolved", jdkInfo |-> 0]

\* suggestOpenJdk (index.ts 206-225): one request.get; its JSON body is
\* returned as it is (the body answering request r is named r), a network or
\* service failure rejects
suggestOpenJdk(r, ok) ==
    IF ok THEN [state |-> "resolved", jdkInfo |-> r]
    ELSE [state |-> "rejected", jdkInfo |-> 0]

\* webviewPanel.webview.postMessage (index.ts 55 / 62); live: whether the
\* surface was still there to receive it
Post(command, s, payload) ==
    [posted EXCEPT ![command] =
        Append(@, [panel |-> s, payload |-> payload, live |-> ~panels[s].disposed])]

\* the release service answers request r, or the request fails; the caller
\* (index.ts 49-50 or 68-70) posts applyJdkInfo with what it was resolved to
SuggestOpenJdkSettles(r) ==
    /\ requests[r].state = "pending"
    /\ \E ok \in BOOLEAN :
          LET settled == suggestOpenJdk(r, ok)
          IN  /\ requests' = [requests EXCEPT ![r].state = settled.state]
              /\ posted' = IF settled.state = "resolved"
                           THEN Post("applyJdkInfo", requests[r].panel, settled.jdkInfo)
                           ELSE posted
    /\ UNCHANGED <<view, panels, discoveries, parseVars, valVars>>

\* findJavaRuntimeEntries() resolves (it never rejects) and its entries are
\* posted (index.ts 72-74)
FindJavaRuntimeEntriesResolves(d) ==
    /\ discoveries[d].state = "pending"
    /\ discoveries' = [discoveries EXCEPT ![d].state = "resolved"]
    /\ posted' = Post("showJavaRuntimeEntries", discoveries[d].panel, 0)
    /\ UNCHANGED <<view, panels, requests, parseVars, valVars>>

Next ==
    \/ \E f \in Features : CmdHandler(f)
    \/ \E f \in Features : DeserializeWebviewPanel(f)
    \/ \E s \in 1..Len(panels) : Dispose(s)
    \/ \E s \in 1..Len(panels) : LoadTextDone(s)
    \/ \E s \in 1..Len(panels) : ReceiveRequestJdkInfo(s)
    \/ \E r \in 1..Len(requests) : SuggestOpenJdkSettles(r)
    \/ \E d \in 1..Len(discoveries) : FindJavaRuntimeEntriesResolves(d)

Spec == Init /\ [][Next]_vars

\* ------------------------------------------------------------------------
\* Properties of the panels (Spec)
\* ------------------------------------------------------------------------
Surfaces == 1..Len(panels)

\* the panel of feature f is Open: a surface is tracked and it is live
IsOpen(f) == view[f] # 0 /\ ~panels[view[f]].disposed

\* C2: a disposal of the tracked surface always takes the panel back to
\* Unopened: the module-level reference never stays on a disposed surface,
\* at whatever moment after its creation or adoption the surface is disposed.
C2_DisposalReturnsToUnopened ==
    \A f \in Features : view[f] # 0 => ~panels[view[f]].disposed

\* the live surfaces of feature f that are initialised or being initialised
LiveInitialised(f) ==
    {s \in Surfaces :
        /\ panels[s].feature = f
        /\ ~panels[s].disposed
        /\ panels[s].init \in {"loading", "ready"}}

\* a step taken while feature f is Open constructs and adopts nothing, leaves
\* the tracked reference alone unless the tracked surface itself is disposed,
\* and a surface of f that the step brings in (a restored one) is disposed
\* uninitialised while the tracked one is revealed
OpenStepOnlyReveals(f) ==
    /\ LiveInitialised(f)' \subseteq LiveInitialised(f)
    /\ \/ view'[f] = view[f]
       \/ view'[f] = 0 /\ panels'[view[f]].disposed
    /\ (Len(panels') > Len(panels) /\ panels'[Len(panels')].feature = f) =>
          /\ panels'[Len(panels')].disposed
          /\ panels'[Len(panels')].init = "none"
          /\ view'[f] = view[f]
          /\ panels'[view[f]].revealed

\* C3: each feature has at most one live, initialised surface in every
\* reachable state; an open command or a restore issued while the panel is
\* Open only reveals the existing surface (the restored surface is disposed)
\* and neither clears nor replaces the tracked reference.
C3_SingletonPerFeature ==
    /\ [](\A f \in Features : Cardinality(LiveInitialised(f)) <= 1)
    /\ [][\A f \in Features : IsOpen(f) => OpenStepOnlyReveals(f)]_vars

\* while the tracked surface is still loading its document, a restore of the
\* same feature has revealed it and disposed the restored surface
C3_Witness ==
    \E f \in Features : \E s \in Surfaces :
        /\ IsOpen(f)
        /\ panels[view[f]].init = "loading"
        /\ panels[view[f]].revealed
        /\ s # view[f]
        /\ panels[s].feature = f
        /\ panels[s].disposed
        /\ panels[s].init = "none"

ApplyMessages == posted["applyJdkInfo"]
ShowMessages == posted["showJavaRuntimeEntries"]

\* C9: a failed advisory request is a failure for its caller and leaves the
\* suggestion area unpopulated: no applyJdkInfo is posted for it, every
\* applyJdkInfo carries the answer of a successfully completed request (once,
\* to that request's surface), and a completed discovery has posted
\* showJavaRuntimeEntries whatever became of the advisory requests.
C9_AdvisoryFailureSurfaced ==
    /\ \A k \in 1..Len(ApplyMessages) :
          /\ ApplyMessages[k].payload \in 1..Len(requests)
          /\ requests[ApplyMessages[k].payload].state = "resolved"
          /\ requests[ApplyMessages[k].payload].panel = ApplyMessages[k].panel
          /\ \A j \in 1..Len(ApplyMessages) :
                ApplyMessages[j].payload = ApplyMessages[k].payload => j = k
    /\ \A r \in 1..Len(requests) :
          /\ requests[r].state = "rejected" =>
                \A k \in 1..Len(ApplyMessages) : ApplyMessages[k].payload # r
          /\ requests[r].state = "resolved" =>
                \E k \in 1..Len(ApplyMessages) : ApplyMessages[k].payload = r
    /\ Len(ApplyMessages) =
          Cardinality({r \in 1..Len(requests) : requests[r].state = "resolved"})
    /\ \A d \in 1..Len(discoveries) :
          discoveries[d].state = "resolved" =>
              \E k \in 1..Len(ShowMessages) : ShowMessages[k].panel = discoveries[d].panel

\* the initial advisory request of a surface failed, its entries were shown
\* all the same, and a later requestJdkInfo of the same surface was answered
C9_Witness ==
    \E r, q \in 1..Len(requests) :
        /\ requests[r].origin = "init"
        /\ requests[r].state = "rejected"
        /\ \E k \in 1..Len(ShowMessages) : ShowMessages[k].panel = requests[r].panel
        /\ requests[q].origin = "message"
        /\ requests[q].panel = requests[r].panel
        /\ requests[q].state = "resolved"
        /\ \E k \in 1..Len(ApplyMessages) : ApplyMessages[k].payload = q

\* ------------------------------------------------------------------------
\* More properties of parseMajorVersion (SpecParse)
\* ------------------------------------------------------------------------
HasDigit(text) == \E k \in 1..Len(text) : text[k] \in DigitChars

\* the banner lacks the pattern   version "..."   (no   version "   is closed
\* by a quote on its line)
LacksVersionPattern(s) == QuotedStarts(s) = {}

\* C11 (as stated): a banner that lacks the pattern version "..." parses to
\* 0, the empty banner included, and so does a banner whose quoted token
\* contains no decimal digit.
C11_ZeroWithoutVersion ==
    javaVersion # <<>> =>
        /\ LacksVersionPattern(content) => javaVersion[1] = 0
        /\ (~LacksVersionPattern(content) /\ ~HasDigit(QuotedToken(content))) =>
              javaVersion[1] = 0

\* C11 (amended): a banner that lacks the pattern parses to 0, and so does a
\* banner whose text between the first   version "   closed on its line and
\* the LAST quote of that line contains no decimal digit.
C11_ZeroWithoutDigits ==
    javaVersion # <<>> =>
        /\ LacksVersionPattern(content) => javaVersion[1] = 0
        /\ (~LacksVersionPattern(content) /\ ~HasDigit(TextToLastQuote(content))) =>
              javaVersion[1] = 0

\* a banner with an unclosed   version "   and a digit has been parsed to 0
C11_Witness ==
    /\ javaVersion = <<0>>
    /\ LacksVersionPattern(content)
    /\ \E i \in 1..Len(content) : StartsWithAt(content, VersionLiteral, i)
    /\ HasDigit(content)

\* ------------------------------------------------------------------------
\* Properties of the enumeration (SpecValidate)
\* ------------------------------------------------------------------------
Enumerated == entries # <<>>

\* C12: enumeration returns java.home, JDK_HOME, JAVA_HOME in this order,
\* each present even when its source is unset, followed by one entry named
\* "Other" only when the auto-detection probe succeeds; a failed probe leaves
\* exactly the three entries.  Enumeration sets neither isValid nor hint.
C12_EnumerationOrder ==
    Enumerated =>
        /\ probe # <<>>
        /\ Len(entries) = IF probe[1].err THEN 3 ELSE 4
        /\ entries[1].name = "java.home"
        /\ entries[1].path = settings.javaHome
        /\ entries[1].type = "UserSetting"
        /\ entries[2].name = "JDK_HOME"
        /\ entries[2].path = settings.JDK_HOME
        /\ entries[2].type = "EnvironmentVariable"
        /\ entries[3].name = "JAVA_HOME"
        /\ entries[3].path = settings.JAVA_HOME
        /\ entries[3].type = "EnvironmentVariable"
        /\ ~probe[1].err =>
              /\ entries[4].name = "Other"
              /\ entries[4].path = probe[1].home
              /\ entries[4].type = "Other"
        /\ vpc = <<>> =>
              \A i \in 1..Len(entries) :
                  entries[i].isValid = "undefined" /\ entries[i].hint = NoHint

\* the probe failed and the enumeration, not yet validated, holds the three
\* fixed entries, one of them for an unset source
C12_Witness ==
    /\ Enumerated
    /\ vpc = <<>>
    /\ probe # <<>>
    /\ probe[1].err
    /\ Len(entries) = 3
    /\ entries[2].path = Undefined
    /\ entries[3].path # Undefined

\* ------------------------------------------------------------------------
\* Ordering and lifetime of the runtime panel's messages (Spec)
\* ------------------------------------------------------------------------
\* C13: the applyJdkInfo messages of a surface are posted in the order their
\* requests were issued (requests are numbered in issue order and a message
\* carries the number of the request it answers), so the last one received is
\* the answer to the most recent request.
C13_InIssueOrder ==
    \A j, k \in 1..Len(ApplyMessages) :
        (j < k /\ ApplyMessages[j].panel = ApplyMessages[k].panel) =>
            ApplyMessages[j].payload < ApplyMessages[k].payload

\* C14: no applyJdkInfo or showJavaRuntimeEntries message is posted to a
\* surface after it has been disposed, and each is posted to the surface
\* whose initialisation or message issued the request or the discovery.
C14_NoPostAfterDispose ==
    /\ \A k \in 1..Len(ApplyMessages) :
          /\ ApplyMessages[k].live
          /\ requests[ApplyMessages[k].payload].panel = ApplyMessages[k].panel
    /\ \A k \in 1..Len(ShowMessages) :
          /\ ShowMessages[k].live
          /\ \E d \in 1..Len(discoveries) : discoveries[d].panel = ShowMessages[k].panel

====
